---- MODULE Spec2Model ----
(***************************************************************************)
(* Model of the map generator src/map_gen.py: the enumeration of grid      *)
(* loops (all_loops), the random walk (gen_cycle), the connectivity grid   *)
(* (edge_path_to_grid), the two tile classifiers (graph_transform and      *)
(* map_transform), the rejection sampler (object_placement) and the        *)
(* assembly of the map (gen_map).                                          *)
(*                                                                         *)
(* Cells are pairs <<x, y>>.  A grid (Python list of rows, l[y][x]) is a   *)
(* function on Cells(width, height).  Lengths are in thousandths of a      *)
(* world unit, so that TILE_SIZE = 0.585 is the integer 585.               *)
(***************************************************************************)
EXTENDS Integers, Sequences, FiniteSets, TLC

VARIABLES
    width, height, seed,      \* args.width, args.height, args.seed
    pc,                       \* position in the function being run
    edges,                    \* gen_map: the loop picked from all_loops()
    conn_map,                 \* grid of (N, E, S, W) records
    bool_map,                 \* gen_cycle's cycle_map / map_transform's input
    tile_map,                 \* grid of tile names
    track, visited,           \* gen_cycle: the walk and the set of its cells
    n, min_dist, possible_tiles, \* object_placement's arguments
    ducks, obj_idx, tries,    \* object_placement: accepted positions, loop counters
    objects,                  \* map_dict["objects"]
    run, first_map            \* two runs of the program with the same arguments

vars == << width, height, seed, pc, edges, conn_map, bool_map, tile_map,
           track, visited, n, min_dist, possible_tiles, ducks, obj_idx, tries,
           objects, run, first_map >>

----------------------------------------------------------------------------
(* Bounds of the model. *)
MaxW == 3
MaxH == 3
MaxSeed == 1
MaxN == 2
DetDim == 2

(* Constants of the program. *)
TILE_SIZE == 585
MaxTries == 50
DefaultCount == 5
DefaultMinDist == 10000
RotateRange == 360

(* The sampled results of rand.random() * TILE_SIZE (a value in [0, TILE_SIZE)),
   of rand.randrange(0, 360), and the min_dist arguments tried. *)
Offsets == {0, TILE_SIZE - 1}
RotValues == {0, RotateRange - 1}
DistValues == {0, 600, DefaultMinDist}

----------------------------------------------------------------------------
(* Grids. *)
Cells(w, h) == (0 .. w - 1) \X (0 .. h - 1)

Range(s) == {s[k] : k \in 1 .. Len(s)}

neighs(x, y) == << <<x + 1, y>>, <<x - 1, y>>, <<x, y + 1>>, <<x, y - 1>> >>

Abs(a) == IF a < 0 THEN -a ELSE a

(* The edges of nx.grid_2d_graph(width, height, create_using=nx.DiGraph):
   one in each direction between 4-adjacent cells. *)
GridEdge(a, b) == Abs(a[1] - b[1]) + Abs(a[2] - b[2]) = 1

is_set(l, x, y, w, h) ==
    IF x < 0 \/ y < 0 \/ x >= w \/ y >= h THEN FALSE ELSE l[<<x, y>>]

----------------------------------------------------------------------------
(* all_loops: nx.simple_cycles of the grid digraph.  A simple cycle is a
   path without repeated node whose last node has an edge to its first; each
   is listed once, here from its least cell (cyclic permutations are the same
   cycle, the two directions of a loop of more than two cells are not). *)
CellLess(a, b) == a[2] < b[2] \/ (a[2] = b[2] /\ a[1] < b[1])

ExtendPaths(P, w, h) ==
    UNION { { Append(p, c) : c \in { d \in Cells(w, h) :
                                       /\ GridEdge(p[Len(p)], d)
                                       /\ d \notin Range(p)
                                       /\ CellLess(p[1], d) } } : p \in P }

RECURSIVE SimplePaths(_, _, _)
SimplePaths(P, w, h) ==
    IF P = {} THEN {} ELSE P \cup SimplePaths(ExtendPaths(P, w, h), w, h)

all_loops(w, h) ==
    { p \in SimplePaths({ <<c>> : c \in Cells(w, h) }, w, h) :
        GridEdge(p[Len(p)], p[1]) }

(* The node at which nx.simple_cycles starts the list of a cycle is not
   specified: any cyclic permutation may be the one returned. *)
Rotate(es, k) == SubSeq(es, k, Len(es)) \o SubSeq(es, 1, k - 1)

Listings(w, h) ==
    UNION { { Rotate(es, k) : k \in 1 .. Len(es) } : es \in all_loops(w, h) }

----------------------------------------------------------------------------
(* empty and edge_path_to_grid. *)
NoConn == <<FALSE, FALSE, FALSE, FALSE>>

empty(w, h) == [c \in Cells(w, h) |-> NoConn]

(* Mutant of PredIdx: the index before the first is not wrapped to the last. *)
PredIdxNoWrap(k, len) == IF k = 1 THEN 1 ELSE k - 1

(* edges[i - 1] and edges[(i + 1) % c_len] for the 1-based index k = i + 1;
   Python's edges[-1] is the last element. *)
PredIdx(k, len) == IF k = 1 THEN len ELSE k - 1
SuccIdx(k, len) == (k % len) + 1

EdgeRecord(es, k) ==
    LET nb == { es[PredIdx(k, Len(es))], es[SuccIdx(k, Len(es))] }
        x  == es[k][1]
        y  == es[k][2]
    IN  << <<x, y - 1>> \in nb, <<x + 1, y>> \in nb,
           <<x, y + 1>> \in nb, <<x - 1, y>> \in nb >>

RECURSIVE EdgeLoop(_, _, _)
EdgeLoop(cm, es, k) ==
    IF k > Len(es) THEN cm
    ELSE EdgeLoop([cm EXCEPT ![es[k]] = EdgeRecord(es, k)], es, k + 1)

edge_path_to_grid(es, w, h) == EdgeLoop(empty(w, h), es, 1)

----------------------------------------------------------------------------
(* Mutant of graph_tile: the pattern of "curve_left/E" is mistyped. *)
graph_tile_typo(r) ==
    IF r = <<FALSE, FALSE, FALSE, FALSE>> THEN "grass"
    ELSE IF r = <<FALSE, TRUE, FALSE, TRUE>> THEN "straight/E"
    ELSE IF r = <<TRUE, FALSE, TRUE, FALSE>> THEN "straight/S"
    ELSE IF r = <<TRUE, TRUE, FALSE, FALSE>> THEN "curve_left/S"
    ELSE IF r = <<FALSE, TRUE, TRUE, FALSE>> THEN "curve_left/W"
    ELSE IF r = <<FALSE, FALSE, TRUE, TRUE>> THEN "curve_left/N"
    ELSE IF r = <<TRUE, FALSE, FALSE, FALSE>> THEN "curve_left/E"
    ELSE IF r = <<TRUE, TRUE, TRUE, FALSE>> THEN "3way_left/S"
    ELSE IF r = <<FALSE, TRUE, TRUE, TRUE>> THEN "3way_left/W"
    ELSE IF r = <<TRUE, FALSE, TRUE, TRUE>> THEN "3way_left/N"
    ELSE IF r = <<TRUE, TRUE, FALSE, TRUE>> THEN "3way_left/E"
    ELSE IF r = <<TRUE, TRUE, FALSE, TRUE>> THEN "4way/E"
    ELSE ""

(* Mutant of graph_tile: the "4way/E" branch tests the all-true record. *)
graph_tile_4way(r) ==
    IF r = <<FALSE, FALSE, FALSE, FALSE>> THEN "grass"
    ELSE IF r = <<FALSE, TRUE, FALSE, TRUE>> THEN "straight/E"
    ELSE IF r = <<TRUE, FALSE, TRUE, FALSE>> THEN "straight/S"
    ELSE IF r = <<TRUE, TRUE, FALSE, FALSE>> THEN "curve_left/S"
    ELSE IF r = <<FALSE, TRUE, TRUE, FALSE>> THEN "curve_left/W"
    ELSE IF r = <<FALSE, FALSE, TRUE, TRUE>> THEN "curve_left/N"
    ELSE IF r = <<TRUE, FALSE, FALSE, TRUE>> THEN "curve_left/E"
    ELSE IF r = <<TRUE, TRUE, TRUE, FALSE>> THEN "3way_left/S"
    ELSE IF r = <<FALSE, TRUE, TRUE, TRUE>> THEN "3way_left/W"
    ELSE IF r = <<TRUE, FALSE, TRUE, TRUE>> THEN "3way_left/N"
    ELSE IF r = <<TRUE, TRUE, FALSE, TRUE>> THEN "3way_left/E"
    ELSE IF r = <<TRUE, TRUE, TRUE, TRUE>> THEN "4way/E"
    ELSE ""

(* graph_transform: the if/elif cascade on a record (N, E, S, W). *)
graph_tile(r) ==
    IF r = <<FALSE, FALSE, FALSE, FALSE>> THEN "grass"
    ELSE IF r = <<FALSE, TRUE, FALSE, TRUE>> THEN "straight/E"
    ELSE IF r = <<TRUE, FALSE, TRUE, FALSE>> THEN "straight/S"
    ELSE IF r = <<TRUE, TRUE, FALSE, FALSE>> THEN "curve_left/S"
    ELSE IF r = <<FALSE, TRUE, TRUE, FALSE>> THEN "curve_left/W"
    ELSE IF r = <<FALSE, FALSE, TRUE, TRUE>> THEN "curve_left/N"
    ELSE IF r = <<TRUE, FALSE, FALSE, TRUE>> THEN "curve_left/E"
    ELSE IF r = <<TRUE, TRUE, TRUE, FALSE>> THEN "3way_left/S"
    ELSE IF r = <<FALSE, TRUE, TRUE, TRUE>> THEN "3way_left/W"
    ELSE IF r = <<TRUE, FALSE, TRUE, TRUE>> THEN "3way_left/N"
    ELSE IF r = <<TRUE, TRUE, FALSE, TRUE>> THEN "3way_left/E"
    ELSE IF r = <<TRUE, TRUE, FALSE, TRUE>> THEN "4way/E"
    ELSE ""

graph_transform(cm, w, h) == [c \in Cells(w, h) |-> graph_tile(cm[c])]

(* check and map_transform: the same cascade on the four neighbours of a
   True cell of a boolean grid; a False cell stays "grass". *)
check(bm, x, y, nn, ee, ss, ww, w, h) ==
    LET e1 == IF x + 1 < w THEN bm[<<x + 1, y>>] ELSE FALSE
        w1 == IF x - 1 >= 0 THEN bm[<<x - 1, y>>] ELSE FALSE
        s1 == IF y + 1 < h THEN bm[<<x, y + 1>>] ELSE FALSE
        n1 == IF y - 1 >= 0 THEN bm[<<x, y - 1>>] ELSE FALSE
    IN  e1 = ee /\ w1 = ww /\ n1 = nn /\ s1 = ss

map_tile(bm, x, y, w, h) ==
    IF ~bm[<<x, y>>] THEN "grass"
    ELSE IF check(bm, x, y, FALSE, TRUE, FALSE, TRUE, w, h) THEN "straight/E"
    ELSE IF check(bm, x, y, TRUE, FALSE, TRUE, FALSE, w, h) THEN "straight/S"
    ELSE IF check(bm, x, y, TRUE, TRUE, FALSE, FALSE, w, h) THEN "curve_left/S"
    ELSE IF check(bm, x, y, FALSE, TRUE, TRUE, FALSE, w, h) THEN "curve_left/W"
    ELSE IF check(bm, x, y, FALSE, FALSE, TRUE, TRUE, w, h) THEN "curve_left/N"
    ELSE IF check(bm, x, y, TRUE, FALSE, FALSE, TRUE, w, h) THEN "curve_left/E"
    ELSE IF check(bm, x, y, TRUE, TRUE, TRUE, FALSE, w, h) THEN "3way_left/S"
    ELSE IF check(bm, x, y, FALSE, TRUE, TRUE, TRUE, w, h) THEN "3way_left/W"
    ELSE IF check(bm, x, y, TRUE, FALSE, TRUE, TRUE, w, h) THEN "3way_left/N"
    ELSE IF check(bm, x, y, TRUE, TRUE, FALSE, TRUE, w, h) THEN "3way_left/E"
    ELSE IF check(bm, x, y, TRUE, TRUE, FALSE, TRUE, w, h) THEN "4way/E"
    ELSE ""

map_transform(bm, w, h) == [c \in Cells(w, h) |-> map_tile(bm, c[1], c[2], w, h)]

----------------------------------------------------------------------------
(* object_placement.  A candidate is a tile of possible_tiles (rand.choice)
   moved by two offsets (rand.random() * TILE_SIZE). *)
Candidates(tiles) ==
    { << tiles[k][1] * TILE_SIZE + xo, tiles[k][2] * TILE_SIZE + yo >> :
        k \in 1 .. Len(tiles), xo \in Offsets, yo \in Offsets }

(* Mutant of Accepts: >= in place of >. *)
AcceptsOrEqual(c, ds, d) ==
    \A k \in 1 .. Len(ds) :
        (c[1] - ds[k][1]) * (c[1] - ds[k][1])
          + (c[2] - ds[k][2]) * (c[2] - ds[k][2]) >= d * d

(* all(map(lambda o: (x-o[0])**2 + (y-o[1])**2 > min_dist_sq, ducks)) *)
Accepts(c, ds, d) ==
    \A k \in 1 .. Len(ds) :
        (c[1] - ds[k][1]) * (c[1] - ds[k][1])
          + (c[2] - ds[k][2]) * (c[2] - ds[k][2]) > d * d

(* Mutant of MoreTries: one try too many. *)
MoreTriesOffByOne(t) == t <= MaxTries

(* for _ in range(50): one more try is made while fewer than 50 were. *)
MoreTries(t) == t < MaxTries

(* The lists object_placement(k, d, tiles) can return when it starts from
   ds: for each object the inner loop either appends the first accepted
   candidate, or ends after MaxTries rejected ones and appends nothing. *)
RECURSIVE PlaceFrom(_, _, _, _)
PlaceFrom(ds, k, d, tiles) ==
    IF k = 0 THEN {ds}
    ELSE LET acc == { c \in Candidates(tiles) : Accepts(c, ds, d) }
             rej == Candidates(tiles) \ acc
         IN  UNION { PlaceFrom(Append(ds, c), k - 1, d, tiles) : c \in acc }
               \cup (IF rej # {} \/ ~MoreTries(0)
                     THEN PlaceFrom(ds, k - 1, d, tiles) ELSE {})

object_placement(k, d, tiles) == PlaceFrom(<<>>, k, d, tiles)

----------------------------------------------------------------------------
(* The values of the variables a function does not use. *)
NoMap == [tile_size |-> 0, tiles |-> <<>>, objects |-> <<>>]

InitArgs ==
    /\ width \in 1 .. MaxW
    /\ height \in 1 .. MaxH
    /\ seed \in 0 .. MaxSeed

IdleMap == edges = <<>> /\ conn_map = <<>> /\ tile_map = <<>> /\ objects = <<>>
IdleWalk == bool_map = <<>> /\ track = <<>> /\ visited = {}
IdlePlace ==
    /\ n = 0 /\ min_dist = 0 /\ possible_tiles = <<>>
    /\ ducks = <<>> /\ obj_idx = 0 /\ tries = 0
IdleRun == run = 1 /\ first_map = NoMap

argVars == << width, height, seed >>
walkVars == << bool_map, track, visited >>
placeVars == << n, min_dist, possible_tiles, ducks, obj_idx, tries >>
runVars == << run, first_map >>

----------------------------------------------------------------------------
(* gen_map.  rand = Random() is never seeded from args.seed: every draw of
   rand is a free choice. *)
map_dict == [tile_size |-> TILE_SIZE, tiles |-> tile_map, objects |-> objects]

(* edges = rand.choice(all_loops()) *)
SelectLoop ==
    /\ pc = "gen_map"
    /\ \E es \in Listings(width, height) : edges' = es
    /\ pc' = "tiles"
    /\ UNCHANGED << argVars, conn_map, tile_map, objects, walkVars, placeVars, runVars >>

(* rand.choice of an empty list raises IndexError, which nothing catches. *)
SelectLoopEmpty ==
    /\ pc = "gen_map"
    /\ all_loops(width, height) = {}
    /\ pc' = "IndexError"
    /\ UNCHANGED << argVars, edges, conn_map, tile_map, objects, walkVars, placeVars, runVars >>

(* map_dict["tiles"] = graph_transform(edge_path_to_grid(edges)) *)
MakeTiles ==
    /\ pc = "tiles"
    /\ conn_map' = edge_path_to_grid(edges, width, height)
    /\ tile_map' = graph_transform(conn_map', width, height)
    /\ pc' = "objects"
    /\ UNCHANGED << argVars, edges, objects, walkVars, placeVars, runVars >>

(* map_dict["objects"] = list(map(lambda x: {..., "pos": [x[0], x[1]],
   "rotate": rand.randrange(0, 360), ...}, object_placement(5, 10, edges))) *)
MakeObjects ==
    /\ pc = "objects"
    /\ \E ds \in object_placement(DefaultCount, DefaultMinDist, edges) :
         \E rot \in [1 .. Len(ds) -> RotValues] :
            objects' = [k \in 1 .. Len(ds) |-> [pos |-> ds[k], rotate |-> rot[k]]]
    /\ pc' = "done"
    /\ UNCHANGED << argVars, edges, conn_map, tile_map, walkVars, placeVars, runVars >>

Init ==
    /\ InitArgs
    /\ pc = "gen_map"
    /\ IdleMap /\ IdleWalk /\ IdlePlace /\ IdleRun

Next == SelectLoop \/ SelectLoopEmpty \/ MakeTiles \/ MakeObjects

Spec == Init /\ [][Next]_vars

----------------------------------------------------------------------------
(* Two runs of the program, one after the other, with the same arguments
   (seed, width, height; the object count and minimum distance are fixed in
   gen_map). *)
Rerun ==
    /\ run = 1
    /\ pc \in {"done", "IndexError"}
    /\ first_map' = (IF pc = "done" THEN map_dict ELSE NoMap)
    /\ run' = 2
    /\ pc' = "gen_map"
    /\ edges' = <<>> /\ conn_map' = <<>> /\ tile_map' = <<>> /\ objects' = <<>>
    /\ UNCHANGED << argVars, walkVars, placeVars >>

InitDet == Init /\ width <= DetDim /\ height <= DetDim

NextDet == Next \/ Rerun

SpecDet == InitDet /\ [][NextDet]_vars

----------------------------------------------------------------------------
(* gen_cycle: the random walk and the pruning of its tail. *)
InBounds(c, w, h) == ~(c[1] < 0 \/ c[2] < 0 \/ c[1] >= w \/ c[2] >= h)

(* sum([i in visited for i in neighs(prevX, prevY)]) *)
VisitedNeighs(c, vis) ==
    Cardinality({ k \in 1 .. 4 : neighs(c[1], c[2])[k] \in vis })

(* track.index(c): the first position of c. *)
IndexOf(tr, c) == CHOOSE j \in 1 .. Len(tr) : tr[j] = c /\ \A m \in 1 .. j - 1 : tr[m] # c

(* track[-2:] *)
LastTwo(tr) == { tr[j] : j \in { m \in 1 .. Len(tr) : m >= Len(tr) - 1 } }

(* for revX, revY in track[:idx]: cycle_map[revY][revX] = False
   (idx counts the elements before the 1-based position j = idx + 1). *)
ClearBefore(bm, tr, j) ==
    [c \in DOMAIN bm |-> IF \E m \in 1 .. j - 1 : tr[m] = c THEN FALSE ELSE bm[c]]

(* The for loop over neighs(prevX, prevY) after the walk. *)
RECURSIVE PruneLoop(_, _, _, _)
PruneLoop(bm, tr, vis, k) ==
    IF k > 4 THEN bm
    ELSE LET last == tr[Len(tr)]
             c    == neighs(last[1], last[2])[k]
         IN  IF c \in vis /\ c \notin LastTwo(tr)
             THEN PruneLoop(ClearBefore(bm, tr, IndexOf(tr, c)), tr, vis, k + 1)
             ELSE PruneLoop(bm, tr, vis, k + 1)

(* Mutant of Prune: the loop stops at the first visited neighbour (a break). *)
RECURSIVE PruneFirstLoop(_, _, _, _)
PruneFirstLoop(bm, tr, vis, k) ==
    IF k > 4 THEN bm
    ELSE LET last == tr[Len(tr)]
             c    == neighs(last[1], last[2])[k]
         IN  IF c \in vis /\ c \notin LastTwo(tr)
             THEN ClearBefore(bm, tr, IndexOf(tr, c))
             ELSE PruneFirstLoop(bm, tr, vis, k + 1)

PruneFirst(bm, tr, vis) == PruneFirstLoop(bm, tr, vis, 1)

Prune(bm, tr, vis) == PruneLoop(bm, tr, vis, 1)

(* prevX = rand.randrange(args.width); prevY = rand.randrange(args.height) *)
WalkStart ==
    /\ pc = "gen_cycle"
    /\ \E x \in 0 .. width - 1, y \in 0 .. height - 1 :
         /\ track' = << <<x, y>> >>
         /\ visited' = { <<x, y>> }
         /\ bool_map' = [c \in Cells(width, height) |-> c = <<x, y>>]
    /\ pc' = "walk"
    /\ UNCHANGED << argVars, edges, conn_map, tile_map, objects, placeVars, runVars >>

(* One iteration of the while loop: a rejected draw (`continue`) leaves
   everything as it is. *)
WalkStep ==
    /\ pc = "walk"
    /\ VisitedNeighs(track[Len(track)], visited) < 2
    /\ \E k \in 1 .. 4 :
         LET last == track[Len(track)]
             c    == neighs(last[1], last[2])[k]
         IN  IF ~InBounds(c, width, height) \/ (Len(track) > 1 /\ c = track[Len(track) - 1])
             THEN UNCHANGED << track, visited, bool_map >>
             ELSE /\ track' = Append(track, c)
                  /\ visited' = visited \cup {c}
                  /\ bool_map' = [bool_map EXCEPT ![c] = TRUE]
    /\ UNCHANGED << argVars, pc, edges, conn_map, tile_map, objects, placeVars, runVars >>

(* The while condition fails; the tail is pruned and cycle_map returned. *)
WalkClose ==
    /\ pc = "walk"
    /\ ~(VisitedNeighs(track[Len(track)], visited) < 2)
    /\ bool_map' = Prune(bool_map, track, visited)
    /\ pc' = "map_transform"
    /\ UNCHANGED << argVars, edges, conn_map, tile_map, track, visited, objects, placeVars, runVars >>

(* tile_map = map_transform(bool_map) *)
MapTransform ==
    /\ pc = "map_transform"
    /\ tile_map' = map_transform(bool_map, width, height)
    /\ pc' = "done"
    /\ UNCHANGED << argVars, edges, conn_map, bool_map, track, visited, objects, placeVars, runVars >>

InitWalk ==
    /\ InitArgs
    /\ pc = "gen_cycle"
    /\ IdleMap /\ IdleWalk /\ IdlePlace /\ IdleRun

NextWalk == WalkStart \/ WalkStep \/ WalkClose \/ MapTransform

SpecWalk == InitWalk /\ [][NextWalk]_vars

(* Fair random choice: a draw that moves the walk is eventually made. *)
SpecWalkFair == SpecWalk /\ WF_vars(NextWalk)

----------------------------------------------------------------------------
(* object_placement, one attempt at a time. *)
PlaceTry ==
    /\ pc = "object_placement"
    /\ obj_idx < n
    /\ MoreTries(tries)
    /\ \E c \in Candidates(possible_tiles) :
         IF Accepts(c, ducks, min_dist)
         THEN /\ ducks' = Append(ducks, c)
              /\ obj_idx' = obj_idx + 1
              /\ tries' = 0
         ELSE /\ tries' = tries + 1
              /\ UNCHANGED << ducks, obj_idx >>
    /\ UNCHANGED << argVars, pc, edges, conn_map, tile_map, objects, walkVars,
                    n, min_dist, possible_tiles, runVars >>

(* The inner loop ends without a break: the object is dropped. *)
PlaceDrop ==
    /\ pc = "object_placement"
    /\ obj_idx < n
    /\ ~MoreTries(tries)
    /\ obj_idx' = obj_idx + 1
    /\ tries' = 0
    /\ UNCHANGED << argVars, pc, edges, conn_map, tile_map, objects, walkVars,
                    n, min_dist, possible_tiles, ducks, runVars >>

(* return ducks *)
PlaceReturn ==
    /\ pc = "object_placement"
    /\ obj_idx = n
    /\ pc' = "done"
    /\ UNCHANGED << argVars, edges, conn_map, tile_map, objects, walkVars, placeVars, runVars >>

InitPlace ==
    /\ width = 2 /\ height = 2 /\ seed = 0
    /\ pc = "object_placement"
    /\ n \in 0 .. MaxN
    /\ min_dist \in DistValues
    /\ possible_tiles \in all_loops(width, height)
    /\ ducks = <<>> /\ obj_idx = 0 /\ tries = 0
    /\ IdleMap /\ IdleWalk /\ IdleRun

NextPlace == PlaceTry \/ PlaceDrop \/ PlaceReturn

SpecPlace == InitPlace /\ [][NextPlace]_vars

----------------------------------------------------------------------------
(* The pure functions on arbitrary inputs: map_transform on every boolean
   grid, graph_transform on a grid holding any one of the 16 records at any
   one cell, and graph_transform(edge_path_to_grid(edges)) on every loop of
   the grid, listed from any of its cells. *)
Records == { <<a, b, c, d>> : a \in BOOLEAN, b \in BOOLEAN, c \in BOOLEAN, d \in BOOLEAN }

GraphTransform ==
    /\ pc = "graph_transform"
    /\ tile_map' = graph_transform(conn_map, width, height)
    /\ pc' = "done"
    /\ UNCHANGED << argVars, edges, conn_map, bool_map, track, visited, objects, placeVars, runVars >>

EdgePathToGrid ==
    /\ pc = "edge_path_to_grid"
    /\ conn_map' = edge_path_to_grid(edges, width, height)
    /\ pc' = "graph_transform"
    /\ UNCHANGED << argVars, edges, tile_map, bool_map, track, visited, objects, placeVars, runVars >>

InitTile ==
    /\ width \in 1 .. MaxW /\ height \in 1 .. MaxH /\ seed = 0
    /\ \/ /\ pc = "map_transform"
          /\ bool_map \in [Cells(width, height) -> BOOLEAN]
          /\ conn_map = <<>>
          /\ edges = <<>>
       \/ /\ pc = "graph_transform"
          /\ bool_map = <<>>
          /\ \E c0 \in Cells(width, height), r \in Records :
                conn_map = [c \in Cells(width, height) |-> IF c = c0 THEN r ELSE NoConn]
          /\ edges = <<>>
       \/ /\ pc = "edge_path_to_grid"
          /\ bool_map = <<>>
          /\ conn_map = <<>>
          /\ edges \in Listings(width, height)
    /\ tile_map = <<>> /\ objects = <<>>
    /\ track = <<>> /\ visited = {}
    /\ IdlePlace /\ IdleRun

NextTile == MapTransform \/ EdgePathToGrid \/ GraphTransform

SpecTile == InitTile /\ [][NextTile]_vars

----------------------------------------------------------------------------
(* What the claims speak of. *)

(* A valid Cycle: at least 4 cells, each 4-adjacent to the next (the last to
   the first), no cell twice, every cell in the grid. *)
ValidCycle(es, w, h) ==
    /\ Len(es) >= 4
    /\ \A k \in 1 .. Len(es) :
          Abs(es[k][1] - es[(k % Len(es)) + 1][1])
            + Abs(es[k][2] - es[(k % Len(es)) + 1][2]) = 1
    /\ \A a, b \in 1 .. Len(es) : a # b => es[a] # es[b]
    /\ \A k \in 1 .. Len(es) :
          es[k][1] \in 0 .. w - 1 /\ es[k][2] \in 0 .. h - 1

LoopPicked == pc \in {"tiles", "objects", "done"}
GridMade == pc \in {"graph_transform", "done"} /\ edges # <<>>
TilesMade == pc = "done" /\ edges # <<>>

(* The cell next to c towards N, E, S, W (flags 1 to 4 of a record). *)
Toward(c, f) ==
    IF f = 1 THEN <<c[1], c[2] - 1>>
    ELSE IF f = 2 THEN <<c[1] + 1, c[2]>>
    ELSE IF f = 3 THEN <<c[1], c[2] + 1>>
    ELSE <<c[1] - 1, c[2]>>

Flags(r) == { f \in 1 .. 4 : r[f] }

(* The tile of a cell whose two neighbours lie towards the flags fs. *)
TwoFlagTile(fs) ==
    IF fs = {2, 4} THEN "straight/E"
    ELSE IF fs = {1, 3} THEN "straight/S"
    ELSE IF fs = {1, 2} THEN "curve_left/S"
    ELSE IF fs = {2, 3} THEN "curve_left/W"
    ELSE IF fs = {3, 4} THEN "curve_left/N"
    ELSE IF fs = {1, 4} THEN "curve_left/E"
    ELSE "none"

RoadTiles == { "straight/E", "straight/S", "curve_left/S", "curve_left/W",
               "curve_left/N", "curve_left/E" }

(* C1: every loop gen_map can pick from all_loops() is a valid Cycle. *)
C1_PickedLoopIsValidCycle == LoopPicked => ValidCycle(edges, width, height)

(* C2: two runs with the same seed, width and height produce the same map. *)
C2_SameSeedSameMap == (run = 2 /\ pc = "done") => map_dict = first_map

(* C3: for a valid Cycle every cell of it has exactly two flags set, those
   towards its predecessor and its successor, and every other cell has the
   all-false record. *)
C3_TwoFlagsTowardNeighbours ==
    (GridMade /\ ValidCycle(edges, width, height)) =>
        /\ DOMAIN conn_map = Cells(width, height)
        /\ \A k \in 1 .. Len(edges) :
              LET before == edges[IF k = 1 THEN Len(edges) ELSE k - 1]
                  after  == edges[IF k = Len(edges) THEN 1 ELSE k + 1]
              IN  /\ Cardinality(Flags(conn_map[edges[k]])) = 2
                  /\ { Toward(edges[k], f) : f \in Flags(conn_map[edges[k]]) }
                        = { before, after }
        /\ \A c \in Cells(width, height) :
              c \notin Range(edges) => conn_map[c] = <<FALSE, FALSE, FALSE, FALSE>>

C3_Witness ==
    /\ GridMade
    /\ ValidCycle(edges, width, height)
    /\ Len(edges) = 6
    /\ \E k \in 2 .. Len(edges) : CellLess(edges[k], edges[1])
    /\ \E c \in Cells(width, height) : c \notin Range(edges)

(* C4: for a valid Cycle no tile is the invalid "": every cell of the cycle
   is the straight or curve tile of its two flags, every other cell grass. *)
C4_NoUnknownTile ==
    (TilesMade /\ ValidCycle(edges, width, height)) =>
        \A c \in Cells(width, height) :
            /\ tile_map[c] # ""
            /\ c \in Range(edges) =>
                  /\ tile_map[c] \in RoadTiles
                  /\ tile_map[c] = TwoFlagTile(Flags(conn_map[c]))
            /\ c \notin Range(edges) => tile_map[c] = "grass"

C4_Witness ==
    /\ TilesMade
    /\ ValidCycle(edges, width, height)
    /\ \E c, d \in Range(edges) :
          tile_map[c] = "straight/S" /\ tile_map[d] = "curve_left/E"
    /\ \E c \in Cells(width, height) : tile_map[c] = "grass"

(* C6: a grid too small to admit a cycle is rejected before generation
   starts: no loop is picked, no tile classified, no object placed. *)
C6_TooSmallRejected ==
    (width < 2 \/ height < 2) => pc \in {"gen_map", "IndexError"}

(* On a grid too small for a cycle the walk of gen_cycle never leaves its
   while loop: nothing rejects the grid there either. *)
WalkTooSmallNeverCloses ==
    (width < 2 \/ height < 2) => pc \in {"gen_cycle", "walk"}

(* C7: on the 3 x 3 grid generation ends with a valid cycle (read with the
   least demand: of at least 4 cells) or with the configuration error. *)
C7_ThreeByThreeValid ==
    (width = 3 /\ height = 3 /\ pc = "done") => ValidCycle(edges, width, height)

(* The walk of gen_cycle on the 3 x 3 grid reaches its closing condition
   under fair random choice (the part of C7 about gen_cycle). *)
Walk3x3Terminates == (width = 3 /\ height = 3) => <>(pc = "done")

(* C8: on a grid of at least 2 x 2, after the walk the True cells are a
   suffix of the track without repeated cell, of at least 4 cells, whose last
   cell is 4-adjacent to its first; every True cell has exactly two True
   4-neighbours, and map_transform makes each a straight or a curve. *)
TrueCells == { c \in Cells(width, height) : bool_map[c] }

C8_WalkLeavesOneLoop ==
    (pc \in {"map_transform", "done"} /\ width >= 2 /\ height >= 2 /\ track # <<>>) =>
        /\ \E j \in 1 .. Len(track) :
              /\ TrueCells = { track[m] : m \in j .. Len(track) }
              /\ \A a, b \in j .. Len(track) : a # b => track[a] # track[b]
              /\ Len(track) - j + 1 >= 4
              /\ Abs(track[Len(track)][1] - track[j][1])
                   + Abs(track[Len(track)][2] - track[j][2]) = 1
        /\ \A c \in TrueCells :
              Cardinality({ d \in TrueCells :
                              Abs(c[1] - d[1]) + Abs(c[2] - d[2]) = 1 }) = 2
        /\ pc = "done" =>
              \A c \in Cells(width, height) :
                  IF bool_map[c] THEN tile_map[c] \in RoadTiles
                  ELSE tile_map[c] = "grass"

(* The walk closed on a cell with more than two visited neighbours and a
   tail was pruned. *)
C8_Witness ==
    /\ pc = "done"
    /\ track # <<>>
    /\ VisitedNeighs(track[Len(track)], visited) >= 3
    /\ \E k \in 1 .. Len(track) : ~bool_map[track[k]]

(* C5: in every state of object_placement any two accepted objects are at
   least min_dist apart and there are at most n of them; an object is
   appended only if its squared distance to every object accepted before
   exceeds min_dist squared. *)
DistSq(a, b) == (a[1] - b[1]) * (a[1] - b[1]) + (a[2] - b[2]) * (a[2] - b[2])

PairwiseApart ==
    \A a, b \in 1 .. Len(ducks) :
        a < b => DistSq(ducks[a], ducks[b]) >= min_dist * min_dist

C5_AcceptedApart ==
    /\ [](PairwiseApart /\ Len(ducks) <= n)
    /\ [][ducks' # ducks =>
            /\ Len(ducks') = Len(ducks) + 1
            /\ SubSeq(ducks', 1, Len(ducks)) = ducks
            /\ \A k \in 1 .. Len(ducks) :
                  DistSq(ducks'[Len(ducks')], ducks[k]) > min_dist * min_dist]_vars

(* Two objects were accepted after at least one candidate could be refused. *)
C5_Witness ==
    /\ pc = "done"
    /\ min_dist = 600
    /\ Len(ducks) = 2

(* C9: neither classifier ever outputs "4way/E"; the record (N, E, not S, W)
   gives "3way_left/E", and the all-true record and every single-flag record
   give the invalid tile "". *)
GraphInput == DOMAIN conn_map # {}

(* The record the classifier reads at cell c: conn_map[c], or the four
   neighbours of c in bool_map. *)
InputRecord(c) ==
    IF GraphInput THEN conn_map[c]
    ELSE << is_set(bool_map, c[1], c[2] - 1, width, height),
            is_set(bool_map, c[1] + 1, c[2], width, height),
            is_set(bool_map, c[1], c[2] + 1, width, height),
            is_set(bool_map, c[1] - 1, c[2], width, height) >>

Classified(c) == GraphInput \/ bool_map[c]

C9_FourWayUnreachable ==
    pc = "done" =>
        \A c \in Cells(width, height) :
            /\ tile_map[c] # "4way/E"
            /\ (Classified(c) /\ InputRecord(c) = <<TRUE, TRUE, FALSE, TRUE>>)
                  => tile_map[c] = "3way_left/E"
            /\ (Classified(c) /\ Cardinality(Flags(InputRecord(c))) \in {1, 4})
                  => tile_map[c] = ""

(* graph_transform has classified the all-true record. *)
C9_GraphWitness ==
    /\ pc = "done"
    /\ GraphInput
    /\ \E c \in Cells(width, height) :
          conn_map[c] = <<TRUE, TRUE, TRUE, TRUE>> /\ tile_map[c] = ""

(* map_transform has classified a cell with the pattern (N, E, not S, W), one
   with four True neighbours and one with a single True neighbour. *)
C9_MapWitness ==
    /\ pc = "done"
    /\ ~GraphInput
    /\ \E c, d, e \in Cells(width, height) :
          /\ bool_map[c] /\ InputRecord(c) = <<TRUE, TRUE, FALSE, TRUE>>
          /\ tile_map[c] = "3way_left/E"
          /\ bool_map[d] /\ Cardinality(Flags(InputRecord(d))) = 4 /\ tile_map[d] = ""
          /\ bool_map[e] /\ Cardinality(Flags(InputRecord(e))) = 1 /\ tile_map[e] = ""

(* C10: at most MaxTries attempts are made for each of the n objects; when
   n >= 2 and min_dist exceeds the distance between any two points of the
   eligible tiles, the first object is accepted at the first attempt, every
   later one is dropped, and exactly one object is returned. *)
Starving(d, tiles) ==
    \A a, b \in Range(tiles) :
        d * d > ((Abs(a[1] - b[1]) + 1) * (Abs(a[1] - b[1]) + 1)
                   + (Abs(a[2] - b[2]) + 1) * (Abs(a[2] - b[2]) + 1))
                  * TILE_SIZE * TILE_SIZE

C10_Starvation ==
    /\ tries <= MaxTries
    /\ obj_idx <= n
    /\ (n >= 2 /\ possible_tiles # <<>> /\ Starving(min_dist, possible_tiles)) =>
          /\ obj_idx = 0 => (tries = 0 /\ ducks = <<>>)
          /\ obj_idx >= 1 => Len(ducks) = 1
          /\ pc = "done" => (Len(ducks) = 1 /\ Len(ducks) < n)
          /\ PairwiseApart

(* The second object was dropped after MaxTries refused candidates. *)
C10_Witness ==
    /\ pc = "done"
    /\ n >= 2
    /\ Starving(min_dist, possible_tiles)
    /\ min_dist = DefaultMinDist
    /\ Len(ducks) = 1

(* With the arguments of gen_map (5 objects, distance 10) every map holds
   exactly one object. *)
GenMapPlacesOneObject == pc = "done" => Len(objects) = 1

(* The lists the loop of object_placement returns are those of the operator
   object_placement used by gen_map. *)
PlacementAgrees ==
    pc = "done" => ducks \in object_placement(n, min_dist, possible_tiles)

====
